---- MODULE Spec2Model ----
(***************************************************************************)
(* Model of the two scripts of the repository.                             *)
(*                                                                         *)
(*   task_2.py  fetch -> remove_punctuation -> split -> map (thread pool)  *)
(*              -> shuffle_and_reduce -> most_common -> plot               *)
(*   task_1.py  rglob -> copy_file for each listed entry                   *)
(*                                                                         *)
(* A text is a sequence of one-character strings; a word is a non-empty    *)
(* sequence of characters.  A Counter is an insertion-ordered dictionary:  *)
(* a sequence of <<word, count>> items with pairwise different words.      *)
(***************************************************************************)
EXTENDS Integers, Sequences, FiniteSets, TLC

(***************************************************************************)
(* Bounds of the model.                                                    *)
(***************************************************************************)
MaxLen == 3
MaxWorkers == 2
MaxTokens == 3

(***************************************************************************)
(* Characters.                                                             *)
(***************************************************************************)
\* string.punctuation, but for the grave accent, which a string of this
\* language cannot hold.
Punctuation ==
  { "!", "\"", "#", "$", "%", "&", "'", "(", ")", "*", "+", ",", "-", ".",
    "/", ":", ";", "<", "=", ">", "?", "@", "[", "\\", "]", "^", "_",
    "{", "|", "}", "~" }

Whitespace == { " ", "\t", "\n", "\r", "\f" }

UpperCase ==
  << "A", "B", "C", "D", "E", "F", "G", "H", "I", "J", "K", "L", "M",
     "N", "O", "P", "Q", "R", "S", "T", "U", "V", "W", "X", "Y", "Z" >>

LowerCase ==
  << "a", "b", "c", "d", "e", "f", "g", "h", "i", "j", "k", "l", "m",
     "n", "o", "p", "q", "r", "s", "t", "u", "v", "w", "x", "y", "z" >>

\* The characters the bounded texts are drawn from: two letters, an upper
\* case letter, a punctuation character and a whitespace character.
Alphabet == { "a", "b", "A", ".", " " }

\* "a a a b b c"
ExampleABC ==
  << "a", " ", "a", " ", "a", " ", "b", " ", "b", " ", "c" >>

\* "The cat sat. The CAT sat!"
ExampleCat ==
  << "T", "h", "e", " ", "c", "a", "t", " ", "s", "a", "t", ".", " ",
     "T", "h", "e", " ", "C", "A", "T", " ", "s", "a", "t", "!" >>

\* "b a a": the most frequent word is not the first one.
ExampleBAA == << "b", " ", "a", " ", "a" >>

BoundedTexts == UNION { [1..n -> Alphabet] : n \in 0..MaxLen }

Texts == BoundedTexts \cup { ExampleABC, ExampleCat, ExampleBAA }

DefaultTopN == 10

TopNs == { -1, 0, 1, 2, DefaultTopN }

(***************************************************************************)
(* TextProcessor: the pure stages.                                         *)
(***************************************************************************)
RECURSIVE remove_punctuation(_)
remove_punctuation(text) ==
  IF text = << >> THEN << >>
  ELSE IF Head(text) \in Punctuation
       THEN remove_punctuation(Tail(text))
       ELSE << Head(text) >> \o remove_punctuation(Tail(text))

\* str.split() without arguments: the maximal runs of non-whitespace
\* characters, in order; `cur` is the run being read.
RECURSIVE SplitFrom(_, _)
SplitFrom(text, cur) ==
  IF text = << >>
  THEN IF cur = << >> THEN << >> ELSE << cur >>
  ELSE IF Head(text) \in Whitespace
       THEN IF cur = << >>
            THEN SplitFrom(Tail(text), << >>)
            ELSE << cur >> \o SplitFrom(Tail(text), << >>)
       ELSE SplitFrom(Tail(text), Append(cur, Head(text)))

split(text) == SplitFrom(text, << >>)

LowerChar(c) ==
  IF \E i \in 1..Len(UpperCase) : UpperCase[i] = c
  THEN LowerCase[CHOOSE i \in 1..Len(UpperCase) : UpperCase[i] = c]
  ELSE c

lower(word) == [i \in 1..Len(word) |-> LowerChar(word[i])]

map_function_nolower(word) == << word, 1 >>

map_function(word) == << lower(word), 1 >>

MapAll(ws) == [i \in 1..Len(ws) |-> map_function(ws[i])]

(***************************************************************************)
(* collections.Counter as an insertion-ordered dictionary.                 *)
(***************************************************************************)
EmptyCounter == << >>

Keys(c) == { c[i][1] : i \in 1..Len(c) }

Get(c, w) ==
  IF w \in Keys(c) THEN c[CHOOSE i \in 1..Len(c) : c[i][1] = w][2] ELSE 0

\* The Counter as a mapping: its keys and the count of each.
AsMapping(c) == [w \in Keys(c) |-> Get(c, w)]

RECURSIVE SumCounts(_)
SumCounts(c) == IF c = << >> THEN 0 ELSE Head(c)[2] + SumCounts(Tail(c))

CounterAdd_overwrite(c, w, n) ==
  IF w \in Keys(c)
  THEN [i \in 1..Len(c) |-> IF c[i][1] = w THEN << w, n >> ELSE c[i]]
  ELSE Append(c, << w, n >>)

\* result[word] += count
CounterAdd(c, w, n) ==
  IF w \in Keys(c)
  THEN [i \in 1..Len(c) |-> IF c[i][1] = w THEN << w, c[i][2] + n >> ELSE c[i]]
  ELSE Append(c, << w, 0 + n >>)

RECURSIVE ReduceFrom(_, _)
ReduceFrom(result, mapped_values) ==
  IF mapped_values = << >> THEN result
  ELSE ReduceFrom(CounterAdd(result, Head(mapped_values)[1], Head(mapped_values)[2]),
                  Tail(mapped_values))

\* A shuffle that groups only adjacent equal words (a group-by without the
\* sort): every run of a word restarts the word's count.
RECURSIVE ReduceRuns(_, _, _)
ReduceRuns(result, prev, mapped_values) ==
  IF mapped_values = << >> THEN result
  ELSE LET w == Head(mapped_values)[1]
           n == Head(mapped_values)[2]
       IN  ReduceRuns(IF prev = << w >> THEN CounterAdd(result, w, n)
                                        ELSE CounterAdd_overwrite(result, w, n),
                      << w >>, Tail(mapped_values))

shuffle_and_reduce_runs(mapped_values) == ReduceRuns(EmptyCounter, << >>, mapped_values)

shuffle_and_reduce(mapped_values) == ReduceFrom(EmptyCounter, mapped_values)

(***************************************************************************)
(* Counter.most_common(n) is heapq.nlargest(n, items, key=count): the      *)
(* items by count, largest first, equal counts in insertion order, cut to  *)
(* n items; nothing for n <= 0.                                            *)
(***************************************************************************)
Min(a, b) == IF a <= b THEN a ELSE b

Remove(s, i) == SubSeq(s, 1, i - 1) \o SubSeq(s, i + 1, Len(s))

\* The first item whose count no other item exceeds.
FirstMax(items) ==
  CHOOSE i \in 1..Len(items) :
    /\ \A j \in 1..Len(items) : items[j][2] <= items[i][2]
    /\ \A j \in 1..(i - 1) : items[j][2] < items[i][2]

RECURSIVE SortedByCount(_)
SortedByCount(items) ==
  IF items = << >> THEN << >>
  ELSE << items[FirstMax(items)] >> \o SortedByCount(Remove(items, FirstMax(items)))

nlargest_unsorted(n, items) ==
  IF n <= 0 THEN << >> ELSE SubSeq(items, 1, Min(n, Len(items)))

nlargest(n, items) ==
  IF n <= 0 THEN << >> ELSE SubSeq(SortedByCount(items), 1, Min(n, Len(items)))

most_common(c, n) == nlargest(n, c)

\* zip(*top_words): nothing for no pair, else the tuple of the words and the
\* tuple of the counts.
ZipStar(pairs) ==
  IF pairs = << >> THEN << >>
  ELSE << [i \in 1..Len(pairs) |-> pairs[i][1]], [i \in 1..Len(pairs) |-> pairs[i][2]] >>


(***************************************************************************)
(* State.                                                                  *)
(*                                                                         *)
(* task_2.py                                                               *)
(*   pc          position of the invoking (main) thread                    *)
(*   status      HTTP status of the response, 0 when there is none         *)
(*   fetched     "pending", "none" (fetch returned None) or "str"          *)
(*   text        the text fetch returned / process_text is called with     *)
(*   words       text.split() of the stripped text                         *)
(*   max_workers size of the ThreadPoolExecutor                            *)
(*   work_queue  the executor's queue of submitted, untaken tasks          *)
(*   futures     one future per submitted word, in submission order        *)
(*   running     the task each pool worker runs, 0 when idle               *)
(*   completed   the tasks in the order the workers completed them         *)
(*   fs_pos      the future the result iterator yields next                *)
(*   result      the Counter shuffle_and_reduce builds                     *)
(*   word_counts the Counter process_text returned                         *)
(*   top_n, top_words, bars   visualize's argument and locals              *)
(*   error       the exception that ended the run, "none" when none        *)
(*   log         the logging calls, in order                               *)
(*   calls       the functions invoked so far                              *)
(* shuffle_and_reduce on a permuted input                                  *)
(*   perm, result_perm                                                     *)
(* task_1.py                                                               *)
(*   tree        the regular files under the source folder                 *)
(*   files, idx  the list rglob returned and the loop's position           *)
(*   dest_dirs   the folders that exist among the output folder and its    *)
(*               extension subfolders                                      *)
(*   dest_files  the files below the output folder, path |-> content       *)
(***************************************************************************)
VARIABLES pc, status, fetched, text, words, max_workers, work_queue, futures,
          running, completed, fs_pos, result, word_counts, top_n, top_words,
          bars, error, log, calls, perm, result_perm,
          tree, files, idx, dest_dirs, dest_files

fetchvars == << status, fetched >>
poolvars == << work_queue, futures, running, completed >>
reducevars == << fs_pos, result, word_counts >>
vizvars == << top_n, top_words, bars, error >>
permvars == << perm, result_perm >>
orgvars == << tree, files, idx, dest_dirs, dest_files >>

vars == << pc, status, fetched, text, words, max_workers, work_queue, futures,
           running, completed, fs_pos, result, word_counts, top_n, top_words,
           bars, error, log, calls, perm, result_perm,
           tree, files, idx, dest_dirs, dest_files >>

Workers == 1..max_workers

PipelineInit ==
  /\ max_workers \in 1..MaxWorkers
  /\ work_queue = << >>
  /\ futures = << >>
  /\ running = [w \in 1..max_workers |-> 0]
  /\ completed = << >>
  /\ fs_pos = 1
  /\ result = EmptyCounter
  /\ word_counts = EmptyCounter
  /\ top_n = DefaultTopN
  /\ top_words = << >>
  /\ bars = << >>
  /\ error = "none"
  /\ log = << >>
  /\ calls = { }

PermIdle == perm = << >> /\ result_perm = EmptyCounter

OrgIdle ==
  /\ tree = { }
  /\ files = << >>
  /\ idx = 1
  /\ dest_dirs = { }
  /\ dest_files = << >>

(***************************************************************************)
(* TextFetcher.fetch and the script's body.                                *)
(***************************************************************************)
Statuses == { 200, 300, 404, 500 }

raise_for_status_never(s) == FALSE

\* Response.raise_for_status raises HTTPError for a 4xx or 5xx status.
raise_for_status(s) == 400 <= s /\ s < 600

\* requests.get raised (no response): the error is logged, None returned.
FetchNetworkError ==
  /\ pc = "fetch"
  /\ status' = 0
  /\ fetched' = "none"
  /\ log' = Append(log, "error: fetching URL")
  /\ pc' = "if_text"
  /\ calls' = calls \cup { "fetch" }
  /\ UNCHANGED << text, words, max_workers, poolvars, reducevars, vizvars,
                  permvars, orgvars >>

\* A response arrived: None with a log line when raise_for_status raises,
\* else the body.
FetchResponse ==
  /\ pc = "fetch"
  /\ \E s \in Statuses, body \in Texts :
       /\ status' = s
       /\ IF raise_for_status(s)
          THEN /\ fetched' = "none"
               /\ text' = << >>
               /\ log' = Append(log, "error: fetching URL")
          ELSE /\ fetched' = "str"
               /\ text' = body
               /\ log' = log
  /\ pc' = "if_text"
  /\ calls' = calls \cup { "fetch" }
  /\ UNCHANGED << words, max_workers, poolvars, reducevars, vizvars,
                  permvars, orgvars >>

\* `if text:` holds for a str that is not empty.
Truthy == fetched = "str" /\ text # << >>

IfText ==
  /\ pc = "if_text"
  /\ Truthy
  /\ pc' = "process_text"
  /\ UNCHANGED << fetchvars, text, words, max_workers, poolvars, reducevars,
                  vizvars, log, calls, permvars, orgvars >>

ElseLog ==
  /\ pc = "if_text"
  /\ ~Truthy
  /\ log' = Append(log, "error: failed to proceed")
  /\ pc' = "done"
  /\ UNCHANGED << fetchvars, text, words, max_workers, poolvars, reducevars,
                  vizvars, calls, permvars, orgvars >>

(***************************************************************************)
(* TextProcessor.process_text.                                             *)
(***************************************************************************)
ProcessText ==
  /\ pc = "process_text"
  /\ words' = split(remove_punctuation(text))
  /\ calls' = calls \cup { "process_text" }
  /\ pc' = "map"
  /\ UNCHANGED << fetchvars, text, max_workers, poolvars, reducevars, vizvars,
                  log, permvars, orgvars >>

\* executor.map submits one task per word, in order, before it returns.
Submit ==
  /\ pc = "map"
  /\ Len(futures) < Len(words)
  /\ futures' = Append(futures, [state |-> "PENDING", result |-> << >>])
  /\ work_queue' = Append(work_queue, Len(futures) + 1)
  /\ UNCHANGED << pc, fetchvars, text, words, max_workers, running, completed,
                  reducevars, vizvars, log, calls, permvars, orgvars >>

MapReturn ==
  /\ pc = "map"
  /\ Len(futures) = Len(words)
  /\ pc' = "shutdown"
  /\ UNCHANGED << fetchvars, text, words, max_workers, poolvars, reducevars,
                  vizvars, log, calls, permvars, orgvars >>

ThreadsJoined_nowait == TRUE

\* shutdown(wait=True) returns when every worker has drained the queue and
\* ended.
ThreadsJoined == work_queue = << >> /\ \A w \in Workers : running[w] = 0

\* Leaving the with block.
ExecutorShutdown ==
  /\ pc = "shutdown"
  /\ ThreadsJoined
  /\ pc' = "reduce"
  /\ UNCHANGED << fetchvars, text, words, max_workers, poolvars, reducevars,
                  vizvars, log, calls, permvars, orgvars >>

\* A pool worker takes the oldest queued task.
WorkerTake(w) ==
  /\ running[w] = 0
  /\ work_queue # << >>
  /\ running' = [running EXCEPT ![w] = Head(work_queue)]
  /\ work_queue' = Tail(work_queue)
  /\ futures' = [futures EXCEPT ![Head(work_queue)].state = "RUNNING"]
  /\ UNCHANGED << pc, fetchvars, text, words, max_workers, completed,
                  reducevars, vizvars, log, calls, permvars, orgvars >>

\* The word a worker maps when the workers share one slot for the current
\* word: the word of the task taken last.
SharedWord(w) ==
  words[CHOOSE i \in { running[v] : v \in Workers } :
          \A v \in Workers : running[v] <= i]

\* The word the worker was handed.
TaskWord(w) == words[running[w]]

\* The worker runs map_function on its word and sets the future's result.
WorkerFinish(w) ==
  /\ running[w] # 0
  /\ futures' = [futures EXCEPT ![running[w]] =
                   [state |-> "FINISHED", result |-> map_function(TaskWord(w))]]
  /\ completed' = Append(completed, running[w])
  /\ running' = [running EXCEPT ![w] = 0]
  /\ UNCHANGED << pc, fetchvars, text, words, max_workers, work_queue,
                  reducevars, vizvars, log, calls, permvars, orgvars >>

\* One turn of shuffle_and_reduce's loop: the result iterator yields the
\* next future's result (waiting for it when it is not set yet).
ReduceStep ==
  /\ pc = "reduce"
  /\ fs_pos <= Len(futures)
  /\ futures[fs_pos].state = "FINISHED"
  /\ result' = CounterAdd(result, futures[fs_pos].result[1], futures[fs_pos].result[2])
  /\ fs_pos' = fs_pos + 1
  /\ UNCHANGED << pc, fetchvars, text, words, max_workers, poolvars,
                  word_counts, vizvars, log, calls, permvars, orgvars >>

ReduceReturn ==
  /\ pc = "reduce"
  /\ fs_pos > Len(futures)
  /\ word_counts' = result
  /\ pc' = "visualize"
  /\ UNCHANGED << fetchvars, text, words, max_workers, poolvars, fs_pos,
                  result, vizvars, log, calls, permvars, orgvars >>

(***************************************************************************)
(* DataVisualizer.visualize.                                               *)
(***************************************************************************)
Visualize(n) ==
  /\ pc = "visualize"
  /\ top_n' = n
  /\ top_words' = most_common(word_counts, n)
  /\ calls' = calls \cup { "visualize" }
  /\ pc' = "unpack"
  /\ UNCHANGED << fetchvars, text, words, max_workers, poolvars, reducevars,
                  bars, error, log, permvars, orgvars >>

\* words, counts = zip(*top_words)
Unpack ==
  /\ pc = "unpack"
  /\ Len(ZipStar(top_words)) = 2
  /\ bars' = ZipStar(top_words)
  /\ pc' = "plot"
  /\ UNCHANGED << fetchvars, text, words, max_workers, poolvars, reducevars,
                  top_n, top_words, error, log, calls, permvars, orgvars >>

\* Unpacking no value into two names raises ValueError, which nothing
\* catches.
UnpackRaise ==
  /\ pc = "unpack"
  /\ Len(ZipStar(top_words)) # 2
  /\ error' = "ValueError"
  /\ pc' = "raised"
  /\ UNCHANGED << fetchvars, text, words, max_workers, poolvars, reducevars,
                  top_n, top_words, bars, log, calls, permvars, orgvars >>

Plot ==
  /\ pc = "plot"
  /\ pc' = "done"
  /\ UNCHANGED << fetchvars, text, words, max_workers, poolvars, reducevars,
                  vizvars, log, calls, permvars, orgvars >>

WorkerStep == \E w \in Workers : WorkerTake(w) \/ WorkerFinish(w)

PipelineStep ==
  \/ ProcessText
  \/ Submit
  \/ MapReturn
  \/ ExecutorShutdown
  \/ ReduceStep
  \/ ReduceReturn
  \/ Unpack
  \/ UnpackRaise
  \/ Plot

(***************************************************************************)
(* Spec: one run of the script task_2.py.                                  *)
(***************************************************************************)
Init ==
  /\ pc = "fetch"
  /\ status = 0
  /\ fetched = "pending"
  /\ text = << >>
  /\ words = << >>
  /\ PipelineInit
  /\ PermIdle
  /\ OrgIdle

MainStep ==
  \/ FetchNetworkError
  \/ FetchResponse
  \/ IfText
  \/ ElseLog
  \/ PipelineStep
  \/ Visualize(DefaultTopN)

Next == MainStep \/ WorkerStep

Spec == Init /\ [][Next]_vars

\* The threads are scheduled fairly: the main thread and every worker
\* eventually take a step that stays possible.
FairSpec ==
  /\ Init
  /\ [][Next]_vars
  /\ WF_vars(MainStep)
  /\ \A w \in 1..MaxWorkers : WF_vars(w \in Workers /\ (WorkerTake(w) \/ WorkerFinish(w)))

(***************************************************************************)
(* SpecApi: process_text and visualize called with any text and top_n.     *)
(***************************************************************************)
InitApi ==
  /\ pc = "process_text"
  /\ status = 0
  /\ fetched = "str"
  /\ text \in Texts
  /\ words = << >>
  /\ PipelineInit
  /\ PermIdle
  /\ OrgIdle

NextApi ==
  \/ PipelineStep
  \/ \E n \in TopNs : Visualize(n)
  \/ WorkerStep

SpecApi == InitApi /\ [][NextApi]_vars


(***************************************************************************)
(* SpecReduce: shuffle_and_reduce on the mapped pairs of a token sequence  *)
(* and on those of a permutation of it.                                    *)
(***************************************************************************)
\* The words split can cut out of a text over Alphabet, one character long.
TokenWords == { << c >> : c \in Alphabet \ (Punctuation \cup Whitespace) }

TokenSeqs == UNION { [1..n -> TokenWords] : n \in 0..MaxTokens }

Perms(n) == { f \in [1..n -> 1..n] : \A i, j \in 1..n : f[i] = f[j] => i = j }

Permuted(ws, f) == [i \in 1..Len(ws) |-> ws[f[i]]]

InitReduce ==
  /\ pc = "reduce_original"
  /\ status = 0
  /\ fetched = "str"
  /\ text = << >>
  /\ PipelineInit
  /\ max_workers = 1
  /\ \E ws \in TokenSeqs :
       /\ words = ws
       /\ perm \in Perms(Len(ws))
  /\ result_perm = EmptyCounter
  /\ OrgIdle

ReduceOriginal ==
  /\ pc = "reduce_original"
  /\ result' = shuffle_and_reduce(MapAll(words))
  /\ pc' = "reduce_permuted"
  /\ UNCHANGED << fetchvars, text, words, max_workers, poolvars, fs_pos,
                  word_counts, vizvars, log, calls, perm, result_perm, orgvars >>

ReducePermuted ==
  /\ pc = "reduce_permuted"
  /\ result_perm' = shuffle_and_reduce(MapAll(Permuted(words, perm)))
  /\ pc' = "reduced"
  /\ UNCHANGED << fetchvars, text, words, max_workers, poolvars, reducevars,
                  vizvars, log, calls, perm, orgvars >>

NextReduce == ReduceOriginal \/ ReducePermuted

SpecReduce == InitReduce /\ [][NextReduce]_vars

(***************************************************************************)
(* task_1.py: FileOrganizer.                                               *)
(*                                                                         *)
(* A file name is a sequence of characters.  A folder below the output     *)
(* folder is named by the extension it is for; << >> names the output      *)
(* folder itself (output_folder / "" is output_folder).  A file below the  *)
(* output folder is named by << folder, file name >>.  The parent of the   *)
(* output folder exists.  The source tree holds regular files only and     *)
(* does not contain the output folder.                                     *)
(***************************************************************************)
NameAT == << "a", ".", "t" >>
NameBP == << "b", ".", "p" >>
NameR == << "R" >>
NameDotE == << ".", "e" >>

\* The files a source tree is made of: the folder below the source folder,
\* the name, and the content (different for different files).
SourceFiles ==
  { [dir |-> ".", name |-> NameAT, content |-> "file1"],
    [dir |-> "s", name |-> NameAT, content |-> "file2"],
    [dir |-> ".", name |-> NameBP, content |-> "file3"],
    [dir |-> "s", name |-> NameR, content |-> "file4"],
    [dir |-> ".", name |-> NameDotE, content |-> "file5"] }

\* The content of the file that is in the output folder before the run.
OldContent == "old"

\* What the output folder is before the run: missing, empty, with an empty
\* extension folder, or with a file in the extension folder.
OutputStates ==
  { [dirs |-> { }, files |-> << >>],
    [dirs |-> { << >> }, files |-> << >>],
    [dirs |-> { << >>, << "t" >> }, files |-> << >>],
    [dirs |-> { << >>, << "t" >> }, files |-> (<< << "t" >>, NameAT >> :> OldContent)] }

HasDot(name) == \E i \in 1..Len(name) : name[i] = "."

LastDot(name) ==
  CHOOSE i \in 1..Len(name) : name[i] = "." /\ \A j \in (i + 1)..Len(name) : name[j] # "."

\* PurePath.suffix: from the last dot on, when the dot is neither the first
\* nor the last character of the name.
Suffix(name) ==
  IF HasDot(name) /\ 1 < LastDot(name) /\ LastDot(name) < Len(name)
  THEN SubSeq(name, LastDot(name), Len(name))
  ELSE << >>

\* file.suffix[1:]
Extension(name) == IF Suffix(name) = << >> THEN << >> ELSE Tail(Suffix(name))

DestPath(file) == << Extension(file.name), file.name >>

\* The orders rglob may list a set of entries in.
Listings(S) ==
  { l \in [1..Cardinality(S) -> S] : \A i, j \in 1..Cardinality(S) : l[i] = l[j] => i = j }

InitOrg ==
  /\ pc = "read_folder"
  /\ status = 0
  /\ fetched = "pending"
  /\ text = << >>
  /\ words = << >>
  /\ PipelineInit
  /\ max_workers = 1
  /\ PermIdle
  /\ tree \in SUBSET SourceFiles
  /\ files = << >>
  /\ idx = 1
  /\ \E o \in OutputStates : dest_dirs = o.dirs /\ dest_files = o.files

\* files = list(folder.rglob("*.*")): the entries whose name has a dot.
ReadFolder ==
  /\ pc = "read_folder"
  /\ files' \in Listings({ f \in tree : HasDot(f.name) })
  /\ idx' = 1
  /\ pc' = "copy_files"
  /\ UNCHANGED << fetchvars, text, words, max_workers, poolvars, reducevars,
                  vizvars, log, calls, permvars, tree, dest_dirs, dest_files >>

\* dest_folder.mkdir(exist_ok=True) succeeds when the folder exists or its
\* parent does and no file has its path; the output folder's parent exists.
MkdirSucceeds(folder) ==
  \/ folder \in dest_dirs
  \/ folder = << >>
  \/ << >> \in dest_dirs /\ << << >>, folder >> \notin DOMAIN dest_files

DestFileExists_never(path) == FALSE

\* dest_file.exists()
DestFileExists(path) == path \in DOMAIN dest_files

\* mkdir raised: the error is logged, the file is left out.
CopyFileError ==
  /\ pc = "copy_files"
  /\ idx <= Len(files)
  /\ ~MkdirSucceeds(Extension(files[idx].name))
  /\ log' = Append(log, "error: copying file")
  /\ idx' = idx + 1
  /\ UNCHANGED << pc, fetchvars, text, words, max_workers, poolvars, reducevars,
                  vizvars, calls, permvars, tree, files, dest_dirs, dest_files >>

\* No file at the destination path: the file is copied there.
CopyFileCopied ==
  /\ pc = "copy_files"
  /\ idx <= Len(files)
  /\ MkdirSucceeds(Extension(files[idx].name))
  /\ ~DestFileExists(DestPath(files[idx]))
  /\ dest_dirs' = dest_dirs \cup { Extension(files[idx].name) }
  /\ dest_files' = (DestPath(files[idx]) :> files[idx].content) @@ dest_files
  /\ log' = Append(log, "info: copied")
  /\ idx' = idx + 1
  /\ UNCHANGED << pc, fetchvars, text, words, max_workers, poolvars, reducevars,
                  vizvars, calls, permvars, tree, files >>

\* A file at the destination path: a warning, nothing copied.
CopyFileSkipped ==
  /\ pc = "copy_files"
  /\ idx <= Len(files)
  /\ MkdirSucceeds(Extension(files[idx].name))
  /\ DestFileExists(DestPath(files[idx]))
  /\ dest_dirs' = dest_dirs \cup { Extension(files[idx].name) }
  /\ log' = Append(log, "warning: exists, skipping")
  /\ idx' = idx + 1
  /\ UNCHANGED << pc, fetchvars, text, words, max_workers, poolvars, reducevars,
                  vizvars, calls, permvars, tree, files, dest_files >>

ReadFolderReturn ==
  /\ pc = "copy_files"
  /\ idx > Len(files)
  /\ pc' = "organized"
  /\ UNCHANGED << fetchvars, text, words, max_workers, poolvars, reducevars,
                  vizvars, log, calls, permvars, orgvars >>

NextOrg ==
  \/ ReadFolder
  \/ CopyFileError
  \/ CopyFileCopied
  \/ CopyFileSkipped
  \/ ReadFolderReturn

SpecOrg == InitOrg /\ [][NextOrg]_vars

(***************************************************************************)
(* Properties of task_2.py.                                                *)
(***************************************************************************)
\* process_text has returned its Counter.
Returned == pc \in { "visualize", "unpack", "plot", "raised", "done" }

\* most_common has returned the ranked items.
Ranked == pc \in { "unpack", "plot", "raised", "done" }

Tokens == split(remove_punctuation(text))

\* C1: shuffle_and_reduce of the mapped pairs of a permutation of a token
\* sequence is the same table as that of the sequence itself: the same keys
\* with the same counts, whatever the order the pairs arrive in.
C1_OrderIndependent ==
  pc = "reduced" => AsMapping(result) = AsMapping(result_perm)

\* A permutation that changed the order the keys were inserted in, of a
\* sequence with a repeated word.
C1_Witness ==
  /\ pc = "reduced"
  /\ result # result_perm
  /\ \E i \in 1..Len(result) : result[i][2] >= 2

\* C2: whatever the size of the pool and the interleaving of its workers,
\* process_text returns the table of the run with a single worker, which
\* maps and folds the words one after the other in their order.
C2_PoolSizeIndependent ==
  Returned => word_counts = shuffle_and_reduce(MapAll(Tokens))

\* A finished run of a pool of several workers that completed the tasks in
\* another order than the words', over at least two different words.
C2_Witness ==
  /\ pc = "done"
  /\ max_workers > 1
  /\ \E i, j \in 1..Len(completed) : i < j /\ completed[i] > completed[j]
  /\ Len(word_counts) >= 2

\* C3: the counts of the returned table add up to the number of tokens of
\* the stripped and split text, and every key's count is at least 1.
C3_Conservation ==
  Returned =>
    /\ SumCounts(word_counts) = Len(Tokens)
    /\ \A i \in 1..Len(word_counts) : word_counts[i][2] >= 1

C3_Witness ==
  /\ pc = "done"
  /\ Len(Tokens) >= 3
  /\ \E i \in 1..Len(word_counts) : word_counts[i][2] >= 2
  /\ Len(word_counts) >= 2

\* A response of a status outside 2xx.
Non2xx == fetched # "pending" /\ status # 0 /\ ~(200 <= status /\ status < 300)

\* requests.get raised: there is no response.
NetworkError == fetched # "pending" /\ status = 0

\* The statuses raise_for_status turns into a failure.
ErrorStatus == fetched # "pending" /\ 400 <= status /\ status < 600

PipelineInvoked == calls \cap { "process_text", "visualize" } # { }

FailureLogged ==
  /\ log # << >>
  /\ log[1] = "error: fetching URL"
  /\ pc = "done" => log = << "error: fetching URL", "error: failed to proceed" >>

\* C4 as stated: after a network error or a response of a status outside
\* 2xx the run logs the failure and ends without invoking process_text or
\* visualize, which are invoked only after a fetch that returned text.
C4_NonSuccessAborts ==
  /\ (NetworkError \/ Non2xx) =>
       /\ ~PipelineInvoked
       /\ pc \in { "if_text", "done" }
       /\ FailureLogged
  /\ PipelineInvoked => fetched = "str" /\ text # << >>

\* C4, amended: after a network error or a response of a 4xx or 5xx status
\* the run logs the failure and ends without invoking process_text or
\* visualize, which are invoked only after a fetch that returned text.
C4_ErrorStatusAborts ==
  /\ (NetworkError \/ ErrorStatus) =>
       /\ ~PipelineInvoked
       /\ pc \in { "if_text", "done" }
       /\ FailureLogged
  /\ PipelineInvoked => fetched = "str" /\ text # << >>

\* A run ended by a 404 response, both failures logged.
C4_Witness ==
  /\ pc = "done"
  /\ status = 404
  /\ log = << "error: fetching URL", "error: failed to proceed" >>
  /\ ~PipelineInvoked

\* C5: the empty text, processed and ranked with top_n = 10, gives the
\* empty ranked sequence and no step raises, the visualization of the
\* ranked sequence included.
C5_EmptyTextGraceful ==
  (text = << >> /\ top_n = DefaultTopN /\ Ranked) =>
    /\ top_words = << >>
    /\ error = "none"
    /\ pc # "raised"

\* C6: most_common(top_n) returns different items of the table, min(top_n,
\* size) of them for top_n >= 0 and none for top_n <= 0, the counts never
\* increasing, no item left out counting more than an item returned; for
\* top_n <= 0 the ranking itself ends without an error.
C6_Ranking ==
  Ranked =>
    /\ \E f \in [1..Len(top_words) -> 1..Len(word_counts)] :
         /\ \A i, j \in 1..Len(top_words) : f[i] = f[j] => i = j
         /\ \A i \in 1..Len(top_words) : top_words[i] = word_counts[f[i]]
    /\ Len(top_words) = IF top_n >= 0 THEN Min(top_n, Len(word_counts)) ELSE 0
    /\ \A i \in 1..(Len(top_words) - 1) : top_words[i][2] >= top_words[i + 1][2]
    /\ \A j \in 1..Len(word_counts) :
         (\A i \in 1..Len(top_words) : top_words[i] # word_counts[j]) =>
           \A i \in 1..Len(top_words) : word_counts[j][2] <= top_words[i][2]
    /\ (top_n <= 0 /\ pc = "unpack") => top_words = << >> /\ error = "none"

\* The more frequent of two words ranked alone, the first word of the
\* table left out.
C6_Witness ==
  /\ pc = "unpack"
  /\ top_n = 1
  /\ Len(word_counts) = 2
  /\ top_words = << word_counts[2] >>
  /\ word_counts[1][2] < word_counts[2][2]

\* The number of tokens whose lower case form is w.
Occurrences(w) == Cardinality({ i \in 1..Len(Tokens) : lower(Tokens[i]) = w })

LowerWords == { lower(Tokens[i]) : i \in 1..Len(Tokens) }

\* C7: the returned table has exactly the lower case forms of the tokens
\* as its keys and maps each to the number of tokens of that form;
\* "a a a b b c" ranked with top_n = 2 is [(a, 3), (b, 2)] and
\* "The cat sat. The CAT sat!" counts the, cat and sat twice each.
C7_CountsPerLowerWord ==
  /\ Returned => AsMapping(word_counts) = [w \in LowerWords |-> Occurrences(w)]
  /\ (Ranked /\ text = ExampleABC /\ top_n = 2) =>
       top_words = << << << "a" >>, 3 >>, << << "b" >>, 2 >> >>
  /\ (Returned /\ text = ExampleCat) =>
       AsMapping(word_counts) = (<< "t", "h", "e" >> :> 2) @@ (<< "c", "a", "t" >> :> 2)
                                  @@ (<< "s", "a", "t" >> :> 2)

\* A finished run over a text with punctuation and with two tokens that
\* differ in case only, counted under one key.
C7_Witness ==
  /\ pc = "done"
  /\ text # remove_punctuation(text)
  /\ \E i, j \in 1..Len(Tokens) :
       /\ Tokens[i] # Tokens[j]
       /\ lower(Tokens[i]) = lower(Tokens[j])
       /\ Get(word_counts, lower(Tokens[i])) = 2

AllMapped ==
  /\ Len(futures) = Len(words)
  /\ \A i \in 1..Len(futures) : futures[i].state = "FINISHED"

\* C9: the reduce step starts only after every map task has completed, the
\* table is written by steps of the invoking thread only, and once every
\* map task has completed process_text returns.
C9_FanOutFanIn ==
  /\ [](pc = "reduce" => AllMapped)
  /\ [][(result' # result \/ word_counts' # word_counts) =>
          (ReduceStep \/ ReduceReturn) /\ ~WorkerStep]_vars
  /\ (("process_text" \in calls /\ pc \in { "map", "shutdown", "reduce" } /\ AllMapped)
        ~> Returned)

\* The reduce loop under way after a pool of several workers mapped several
\* words, the later word first.
C9_Witness ==
  /\ pc = "reduce"
  /\ fs_pos > 1
  /\ max_workers > 1
  /\ Len(completed) >= 2
  /\ completed[1] > completed[2]


(***************************************************************************)
(* Properties of task_1.py.                                                *)
(***************************************************************************)
\* C8: after the run every file of the source tree has a file at
\* <dest>/<extension>/<name>, copied there or there before.
C8_EveryFileOrganized ==
  pc = "organized" =>
    \A f \in tree :
      /\ DestPath(f) \in DOMAIN dest_files
      /\ Extension(f.name) \in dest_dirs

\* The files handled so far that went to the path of an earlier one.
LaterSameName ==
  { j \in 1..(idx - 1) : \E i \in 1..(j - 1) : DestPath(files[i]) = DestPath(files[j]) }

\* C10: no step changes or removes a file that is below the output folder,
\* and of the source files of one name and extension none but the first one
\* handled is ever the content of the destination file.
C10_NeverOverwrites ==
  /\ [][\A p \in DOMAIN dest_files :
          p \in DOMAIN dest_files' /\ dest_files'[p] = dest_files[p]]_vars
  /\ [](pc \in { "copy_files", "organized" } =>
          \A j \in LaterSameName :
            DestPath(files[j]) \in DOMAIN dest_files =>
              dest_files[DestPath(files[j])] # files[j].content)

\* Two source files of one name were handled: the first was copied, the
\* second skipped with a warning.
C10_Witness ==
  /\ pc = "organized"
  /\ \E i, j \in 1..Len(files) :
       /\ i < j
       /\ DestPath(files[i]) = DestPath(files[j])
       /\ dest_files[DestPath(files[i])] = files[i].content
       /\ log[j] = "warning: exists, skipping"
       /\ log[i] = "info: copied"

====
